---- MODULE Spec2Model ----
(***************************************************************************)
(* Batch fulfilment orchestration of portal-xml-api:                       *)
(*   - criar_solicitacao_lote / cancelar_lote      (app/routes/batch.py)   *)
(*   - BatchProcessor                     (app/services/batch_processor.py)*)
(*   - RetryService                            (app/utils/retry_service.py)*)
(*   - conexoes_ativas                           (app/routes/websocket.py) *)
(*                                                                         *)
(* Every coroutine is cut at its await points: one action is the code      *)
(* between two awaits, so the interleavings of the model are those of the  *)
(* asyncio event loop.  Each coroutine works on the ORM objects of its own *)
(* session (expire_on_commit=False): what it read stays in its memory, and *)
(* a commit writes the attributes it assigned, whatever the row holds.     *)
(*                                                                         *)
(* Batches share no row and every pass has a session of its own; the task  *)
(* registry is the only state they share.  The model follows the batches   *)
(* of Batches in full and keeps, of all the others, the number of entries  *)
(* they hold in the registry (otherTasks).                                 *)
(***************************************************************************)
EXTENDS Integers, Sequences, FiniteSets, TLC

\* ----------------------------------------------------------------- bounds
MaxItems == 2          \* targets (and so items) a batch request may name
MaxPasses == 2         \* execution passes counted per batch
MaxFailedAttempts == 4 \* failed deliveries counted per work unit
MaxUnits == 3          \* work units (solicitacoes rows) kept

TickSeconds == 15      \* seconds the clock advances in one step
MaxTicks == 3          \* steps of the clock
MaxBatches == 6        \* batch rows of the owner
MaxListLen == 2        \* length of the target lists enumerated in full
SweepStep == 43200     \* seconds the clock advances while the sweep is followed
MaxSweepSteps == 3     \* steps of that clock
MaxXmls == 2           \* rows of xmls, and rows of solicitacoes they reference
LimiterStep == 900     \* seconds the clock advances while the limiter is followed
MaxSleeps == 6         \* steps of that clock
MaxLimit == 2          \* largest limit the middleware is installed with
MaxCalls == 3          \* calls of one key let through that are followed

\* ------------------------------------------------------ program constants
max_concurrent_batches == 10
RetryLimit == 3
MaxClientsPerBatch == 50   \* if len(client_ids) > 50
MaxPeriodDays == 365       \* if diff.days > 365
MaxAgeDays == 730          \* date.today() - timedelta(days=730)
MaxActiveBatches == 5      \* if active_batches >= 5
Cooldown == 30             \* if time_diff.total_seconds() < 30
cleanup_interval == 300    \* self.cleanup_interval = 300
Hour == 3600               \* timedelta(hours=1), in seconds
SweepInterval == 3600      \* await asyncio.sleep(3600)
RetentionHours == 24       \* timedelta(hours=24)
ValidityHours == 24        \* expiracao = data_envio + timedelta(hours=24)

Batches == {"b1"}
Clients == 1..MaxItems
ItemIdx == 1..MaxItems

NoRow == "none"
Terminal == {"completed", "error"}

\* The calls of criar_solicitacao_lote the admission specifications follow, all
\* of one accountant (contador.id_contador).
Requests == {"r1", "r2"}
Owner == "contador"

\* f"batch_{user_id}" for two callers (request.client.host)
Keys == {"batch_h1", "batch_h2"}

VARIABLES
  batch_requests,       \* table batch_requests: [Batches -> row]
  batch_request_items,  \* table batch_request_items: [Batches -> [ItemIdx -> row]]
  solicitacoes,         \* table solicitacoes: sequence of rows, id = index
  conexoes_ativas,      \* connection registry: set of client ids
  processing_tasks,     \* BatchProcessor.processing_tasks restricted to Batches
  otherTasks,           \* entries of processing_tasks of batches outside Batches
  task,                 \* [Batches -> the _process_batch_async coroutine]
  handler,              \* [Batches -> position of criar_solicitacao_lote]
  cancel,               \* [Batches -> the cancelar_lote coroutine]
  retry,                \* the RetryService coroutine
  hist,                 \* what happened so far, for the properties only
  now,                  \* datetime.now(), in seconds since start-up
  user_last_batch,      \* batch.user_last_batch: [owners seen -> time]
  req,                  \* [Requests -> a criar_solicitacao_lote call of the owner]
  owner_batches,        \* the owner's rows of batch_requests and their items, by number
  limiter,              \* the RateLimiter instance
  middleware,           \* the RateLimitMiddleware and what it answered
  sweeper,              \* the _cleanup_old_batches coroutine
  limpeza               \* table xmls, the rows of solicitacoes it references, and the
                        \* limpar_dados_expirados call

\* the state of admission; the orchestrator's actions leave it alone
admVars == <<now, user_last_batch, req, owner_batches, limiter, middleware, sweeper,
             limpeza>>

vars == <<batch_requests, batch_request_items, solicitacoes, conexoes_ativas,
          processing_tasks, otherTasks, task, handler, cancel, retry, hist,
          now, user_last_batch, req, owner_batches, limiter, middleware, sweeper,
          limpeza>>

\* ------------------------------------------------------------------ rows
NoBatch == [status |-> NoRow, total_requests |-> 0, completed_requests |-> 0,
            failed_requests |-> 0, completed_at |-> FALSE, created_at |-> 0]

NoItem == [status |-> NoRow, xml_url |-> FALSE, error_message |-> "none"]

NoTask == [pc |-> "none", status |-> NoRow, completed_requests |-> 0,
           failed_requests |-> 0, items |-> <<>>, cur |-> 0]

NoCancel == [pc |-> "none", items |-> {}]

\* pending: the rows the cycle selected, still to handle; tentativas: the
\* attribute of each row object of the cycle's session, -1 while it has none
NoRetry == [pc |-> "sleep", pending |-> <<>>,
            tentativas |-> [u \in 1..MaxUnits |-> -1]]

\* passes: times the batch was moved to processing; started[i]: times item i
\* was; dropped: a process_batch call met the cap; overlapped: a call found the
\* batch in the registry; reentered: a task found the batch already taken up;
\* aggregated, agg_completed: the status _update_batch_final_status assigned and
\* the completed counter of the row at that moment; raised: an exception
\* reached the except Exception of _process_batch_async.
NoHist == [passes |-> 0, dropped |-> FALSE, overlapped |-> FALSE,
           reentered |-> FALSE, cancelled |-> FALSE,
           aggregated |-> "none", agg_completed |-> 0,
           started |-> [i \in ItemIdx |-> 0], faults |-> FALSE,
           raised |-> FALSE]

\* the response of criar_solicitacao_lote: the HTTP status and the messages of
\* its detail
NoResponse == [status |-> 0, detail |-> {}]

\* A date string: well-formed (ok) for the day it names, or not.  Days are
\* counted from the day the requests are made.
isoformat(d) == [ok |-> TRUE, day |-> d]
strptime(v) == v.day

\* pc: the await the call is at; client_ids, data_inicio, data_fim: the body
\* (dados); now and active_batches: the locals of verificar_rate_limit
NoReq == [pc |-> "idle", client_ids |-> <<>>, data_inicio |-> isoformat(0),
          data_fim |-> isoformat(0), now |-> 0, active_batches |-> 0,
          response |-> NoResponse]

\* _cleanup_old_batches: asleep since slept_from, or holding the batches it
\* selected (old_batches) on the way to its commit
\* a row of xmls; id_solicitacao 0 is None
NoXml == [stored |-> FALSE, expiracao |-> 0, id_solicitacao |-> 0]

\* xmls: the rows by id_xml, next_xml the next serial id; solicitacoes: the
\* ids of the rows of solicitacoes that XML rows may reference; pc, agora,
\* ids_solicitacoes_expiradas: the limpar_dados_expirados call; deleted_*: the
\* rows its transaction has deleted and not yet committed; at_start: the rows
\* of xmls stored when the call began, for the properties only
NoLimpeza == [xmls |-> [x \in 1..MaxXmls |-> NoXml], next_xml |-> 1,
              solicitacoes |-> {}, pc |-> "idle", agora |-> 0,
              ids_solicitacoes_expiradas |-> {},
              deleted_xmls |-> {}, deleted_solicitacoes |-> {}, at_start |-> {}]

\* running: self.running, read by the coroutine at the top of its loop
NoSweeper == [pc |-> "sleep", slept_from |-> 0, old_batches |-> {}, running |-> TRUE]

\* user_last_batch = {}: no owner has a timestamp
NoOwners == [o \in {} |-> 0]

\* The owner's batches by number: rows in pending or processing, rows in
\* completed or error, and rows of batch_request_items.
NoOwnerBatches == [active |-> 0, terminal |-> 0, items |-> 0]

\* RateLimiter(): requests = {}, last_cleanup = datetime.now()
NoLimiter == [requests |-> [k \in {} |-> <<>>], last_cleanup |-> 0]

\* main.py adds no RateLimitMiddleware: calls = 0 stands for "not installed".
\* response is the status of the last answer of dispatch (0: none yet), passed
\* the times at which is_allowed returned True, by key, for the properties only.
NoMiddleware == [calls |-> 0, period |-> 0, response |-> 0,
                 passed |-> [k \in {} |-> <<>>]]

ItemsWith(b, S) == {i \in ItemIdx : batch_request_items[b][i].status \in S}

\* The ascending sequence of the members of a set of item indexes
\* (.order_by(BatchRequestItem.created_at): items are inserted in index order).
RECURSIVE SortedSeq(_)
SortedSeq(S) ==
  IF S = {} THEN <<>>
  ELSE LET m == CHOOSE x \in S : \A y \in S : x <= y
       IN <<m>> \o SortedSeq(S \ {m})

UnitsOf(b, i) == {u \in 1..Len(solicitacoes) : solicitacoes[u].item = <<b, i>>}

\* ------------------------------------------------------------------ Init
\* The state after start-up, with the clients of connected holding a connection.
InitWith(connected) ==
  /\ batch_requests = [b \in Batches |-> NoBatch]
  /\ batch_request_items = [b \in Batches |-> [i \in ItemIdx |-> NoItem]]
  /\ solicitacoes = <<>>
  /\ conexoes_ativas = connected
  /\ processing_tasks = {}
  /\ otherTasks = 0
  /\ task = [b \in Batches |-> NoTask]
  /\ handler = [b \in Batches |-> "none"]
  /\ cancel = [b \in Batches |-> NoCancel]
  /\ retry = NoRetry
  /\ hist = [b \in Batches |-> NoHist]
  /\ now = 0
  /\ user_last_batch = NoOwners
  /\ req = [r \in Requests |-> NoReq]
  /\ owner_batches = NoOwnerBatches
  /\ limiter = NoLimiter
  /\ middleware = NoMiddleware
  /\ sweeper = NoSweeper
  /\ limpeza = NoLimpeza

Init == InitWith({})

\* ----------------------------------------------------- connection registry
\* websocket_endpoint: accept registers the client, disconnect removes it.
ws_connect(c) ==
  /\ c \notin conexoes_ativas
  /\ conexoes_ativas' = conexoes_ativas \cup {c}
  /\ UNCHANGED <<admVars, batch_requests, batch_request_items, solicitacoes,
                 processing_tasks, otherTasks, task, handler, cancel, retry, hist>>

ws_disconnect(c) ==
  /\ c \in conexoes_ativas
  /\ conexoes_ativas' = conexoes_ativas \ {c}
  /\ UNCHANGED <<admVars, batch_requests, batch_request_items, solicitacoes,
                 processing_tasks, otherTasks, task, handler, cancel, retry, hist>>

\* ------------------------------------------------------------ process_batch
\* len(self.processing_tasks) >= self.max_concurrent_batches
CapReachedOffByOne ==
  Cardinality(processing_tasks) + otherTasks > max_concurrent_batches

CapReached ==
  Cardinality(processing_tasks) + otherTasks >= max_concurrent_batches

\* process_batch up to "await task": "tracked" (already in the registry),
\* "dropped" (the cap is reached) or "started" (task created and registered).
ProcessBatchOutcome(b) ==
  IF b \in processing_tasks THEN "tracked"
  ELSE IF CapReached THEN "dropped"
  ELSE "started"

ProcessBatchEffect(b) ==
  LET out == ProcessBatchOutcome(b) IN
  /\ processing_tasks' = IF out = "started" THEN processing_tasks \cup {b}
                         ELSE processing_tasks
  /\ task' = IF out = "started"
             THEN [task EXCEPT ![b] = [NoTask EXCEPT !.pc = "select_batch"]]
             ELSE task
  /\ hist' = [hist EXCEPT ![b].dropped = @ \/ out = "dropped",
                          ![b].overlapped = @ \/ out = "tracked"]

\* process_batch of a batch outside Batches: the same two guards, then the
\* registration; its task ends and process_batch pops it in other_finish.
other_process_batch ==
  /\ ~CapReached
  /\ otherTasks' = otherTasks + 1
  /\ UNCHANGED <<admVars, batch_requests, batch_request_items, solicitacoes, conexoes_ativas,
                 processing_tasks, task, handler, cancel, retry, hist>>

other_finish ==
  /\ otherTasks > 0
  /\ otherTasks' = otherTasks - 1
  /\ UNCHANGED <<admVars, batch_requests, batch_request_items, solicitacoes, conexoes_ativas,
                 processing_tasks, task, handler, cancel, retry, hist>>

\* ---------------------------------------------------- criar_solicitacao_lote
\* verificar_clientes_online: the requested clients that hold a connection
verificar_clientes_online(client_ids) == client_ids \cap conexoes_ativas

\* Up to the first commit: the request names clients 1..n, all of the owner;
\* at least one must be online; the batch row is committed with no item yet.
criar_commit_batch(b, n) ==
  /\ handler[b] = "none"
  /\ verificar_clientes_online(1..n) # {}
  /\ batch_requests' = [batch_requests EXCEPT ![b] =
       [NoBatch EXCEPT !.status = "pending", !.total_requests = n,
                       !.created_at = now]]
  /\ handler' = [handler EXCEPT ![b] = "batch_committed"]
  /\ UNCHANGED <<admVars, batch_request_items, solicitacoes, conexoes_ativas,
                 processing_tasks, otherTasks, task, cancel, retry, hist>>

\* The items, one per client, all pending, in one commit.
criar_commit_items(b) ==
  /\ handler[b] = "batch_committed"
  /\ batch_request_items' = [batch_request_items EXCEPT ![b] =
       [i \in ItemIdx |-> IF i <= batch_requests[b].total_requests
                          THEN [NoItem EXCEPT !.status = "pending"]
                          ELSE NoItem]]
  /\ handler' = [handler EXCEPT ![b] = "items_committed"]
  /\ UNCHANGED <<admVars, batch_requests, solicitacoes, conexoes_ativas,
                 processing_tasks, otherTasks, task, cancel, retry, hist>>

\* await batch_processor.process_batch(batch_id): the handler answers only
\* when process_batch has returned.
criar_process_batch(b) ==
  /\ handler[b] = "items_committed"
  /\ ProcessBatchEffect(b)
  /\ handler' = [handler EXCEPT ![b] =
       IF ProcessBatchOutcome(b) = "started" THEN "awaiting" ELSE "responded"]
  /\ UNCHANGED <<admVars, batch_requests, batch_request_items, solicitacoes, conexoes_ativas,
                 otherTasks, cancel, retry>>

\* A further call of process_batch for a batch that was already scheduled.
reschedule(b) ==
  /\ handler[b] \in {"awaiting", "responded"}
  /\ ProcessBatchEffect(b)
  /\ UNCHANGED <<admVars, batch_requests, batch_request_items, solicitacoes, conexoes_ativas,
                 otherTasks, handler, cancel, retry>>

\* ------------------------------------------------------ _process_batch_async
T(b) == task[b]
CurItem(b) == task[b].items[task[b].cur]

\* cancelar_lote's select of the pending items autoflushes its UPDATE of the
\* batch row, which keeps the row locked until cancelar_lote commits: another
\* session's UPDATE of that row waits for the commit.
BatchRowLocked(b) == cancel[b].pc = "commit"

\* if batch.status in ["processing", "completed", "error"]: return
NoReentryGuard(status) == FALSE

AlreadyHandled(status) == status \in {"processing", "completed", "error"}

\* select the batch row; leave if there is none or if it was already taken up
select_batch(b) ==
  /\ T(b).pc = "select_batch"
  /\ LET row == batch_requests[b] IN
     task' = [task EXCEPT ![b] =
       IF row.status = NoRow \/ AlreadyHandled(row.status)
       THEN [@ EXCEPT !.pc = "done"]
       ELSE [@ EXCEPT !.pc = "commit_processing",
                      !.status = row.status,
                      !.completed_requests = row.completed_requests,
                      !.failed_requests = row.failed_requests]]
  /\ hist' = [hist EXCEPT ![b].reentered =
                 @ \/ AlreadyHandled(batch_requests[b].status)]
  /\ UNCHANGED <<admVars, batch_requests, batch_request_items, solicitacoes, conexoes_ativas,
                 processing_tasks, otherTasks, handler, cancel, retry>>

\* batch.status = "processing"; commit
commit_processing(b) ==
  /\ T(b).pc = "commit_processing"
  /\ ~BatchRowLocked(b)
  /\ hist[b].passes < MaxPasses
  /\ batch_requests' = [batch_requests EXCEPT ![b].status = "processing"]
  /\ task' = [task EXCEPT ![b].pc = "select_items", ![b].status = "processing"]
  /\ hist' = [hist EXCEPT ![b].passes = @ + 1]
  /\ UNCHANGED <<admVars, batch_request_items, solicitacoes, conexoes_ativas,
                 processing_tasks, otherTasks, handler, cancel, retry>>

\* the pending items of the batch taken newest first
select_items_newest_first(b) ==
  /\ T(b).pc = "select_items"
  /\ LET oldest_first == SortedSeq(ItemsWith(b, {"pending"}))
         items == [k \in 1..Len(oldest_first) |->
                     oldest_first[Len(oldest_first) + 1 - k]]
     IN task' = [task EXCEPT ![b].items = items,
                             ![b].cur = IF items = <<>> THEN 0 ELSE 1,
                             ![b].pc = IF items = <<>> THEN "agg_count" ELSE "item_begin"]
  /\ UNCHANGED <<admVars, batch_requests, batch_request_items, solicitacoes, conexoes_ativas,
                 processing_tasks, otherTasks, handler, cancel, retry, hist>>

\* the pending items of the batch, ordered by created_at
select_items(b) ==
  /\ T(b).pc = "select_items"
  /\ LET items == SortedSeq(ItemsWith(b, {"pending"})) IN
     task' = [task EXCEPT ![b].items = items,
                          ![b].cur = IF items = <<>> THEN 0 ELSE 1,
                          ![b].pc = IF items = <<>> THEN "agg_count" ELSE "item_begin"]
  /\ UNCHANGED <<admVars, batch_requests, batch_request_items, solicitacoes, conexoes_ativas,
                 processing_tasks, otherTasks, handler, cancel, retry, hist>>

\* the for loop left at the first item that has failed
NextItemStopsAtFailure(t) ==
  IF t.failed_requests = 0 /\ t.cur < Len(t.items)
  THEN [t EXCEPT !.cur = @ + 1, !.pc = "item_begin"]
  ELSE [t EXCEPT !.pc = "agg_count"]

\* the for loop: the next item, or _update_batch_final_status after the last
NextItem(t) ==
  IF t.cur < Len(t.items)
  THEN [t EXCEPT !.cur = @ + 1, !.pc = "item_begin"]
  ELSE [t EXCEPT !.pc = "agg_count"]

\* _process_single_item: item.status = "processing"; commit
item_begin(b) ==
  /\ T(b).pc = "item_begin"
  /\ batch_request_items' =
       [batch_request_items EXCEPT ![b][CurItem(b)].status = "processing"]
  /\ hist' = [hist EXCEPT ![b].started[CurItem(b)] = @ + 1]
  /\ task' = [task EXCEPT ![b].pc = "item_create"]
  /\ UNCHANGED <<admVars, batch_requests, solicitacoes, conexoes_ativas,
                 processing_tasks, otherTasks, handler, cancel, retry>>

\* the Solicitacao of the item's client created as sem_conexao when the
\* client holds no connection
item_create_no_connection(b) ==
  /\ T(b).pc = "item_create"
  /\ Len(solicitacoes) < MaxUnits
  /\ solicitacoes' = Append(solicitacoes,
       [id_cliente |-> CurItem(b),
        status |-> IF CurItem(b) \in conexoes_ativas THEN "pendente" ELSE "sem_conexao",
        aged |-> FALSE, failed_attempts |-> 0, item |-> <<b, CurItem(b)>>])
  /\ task' = [task EXCEPT ![b].pc = "item_fulfil"]
  /\ UNCHANGED <<admVars, batch_requests, batch_request_items, conexoes_ativas,
                 processing_tasks, otherTasks, handler, cancel, retry, hist>>

\* the Solicitacao of the item's client: add, commit, refresh
item_create(b) ==
  /\ T(b).pc = "item_create"
  /\ Len(solicitacoes) < MaxUnits
  /\ solicitacoes' = Append(solicitacoes,
       [id_cliente |-> CurItem(b), status |-> "pendente", aged |-> FALSE,
        failed_attempts |-> 0, item |-> <<b, CurItem(b)>>])
  /\ task' = [task EXCEPT ![b].pc = "item_fulfil"]
  /\ UNCHANGED <<admVars, batch_requests, batch_request_items, conexoes_ativas,
                 processing_tasks, otherTasks, handler, cancel, retry, hist>>

\* _mark_item_error: the item row and the failed counter, in one commit.
\* batch.failed_requests += 1 adds to the value in the session's memory.
MarkItemError(b, msg) ==
  /\ ~BatchRowLocked(b)
  /\ batch_request_items' =
       [batch_request_items EXCEPT ![b][CurItem(b)].status = "error",
                                   ![b][CurItem(b)].error_message = msg]
  /\ batch_requests' =
       [batch_requests EXCEPT ![b].failed_requests = T(b).failed_requests + 1]

\* the fulfilment ends: item completed with its xml_url, completed counter + 1
item_fulfil_ok(b) ==
  /\ T(b).pc = "item_fulfil"
  /\ ~BatchRowLocked(b)
  /\ batch_request_items' =
       [batch_request_items EXCEPT ![b][CurItem(b)].status = "completed",
                                   ![b][CurItem(b)].xml_url = TRUE]
  /\ batch_requests' =
       [batch_requests EXCEPT ![b].completed_requests = T(b).completed_requests + 1]
  /\ task' = [task EXCEPT ![b].completed_requests = @ + 1, ![b].pc = "item_notify"]
  /\ UNCHANGED <<admVars, solicitacoes, conexoes_ativas, processing_tasks, otherTasks,
                 handler, cancel, retry, hist>>

\* the fulfilment raises: except Exception marks the item and raises again
item_fulfil_raises(b) ==
  /\ T(b).pc = "item_fulfil"
  /\ MarkItemError(b, "exception")
  /\ task' = [task EXCEPT ![b].failed_requests = @ + 1, ![b].pc = "item_reraised"]
  /\ hist' = [hist EXCEPT ![b].faults = TRUE]
  /\ UNCHANGED <<admVars, solicitacoes, conexoes_ativas, processing_tasks, otherTasks,
                 handler, cancel, retry>>

\* the exception passes _process_item_with_timeout (which catches TimeoutError
\* only) and reaches the loop's except Exception: _mark_item_error again
item_reraised(b) ==
  /\ T(b).pc = "item_reraised"
  /\ MarkItemError(b, "exception")
  /\ task' = [task EXCEPT ![b] = NextItem([@ EXCEPT !.failed_requests = @ + 1])]
  /\ UNCHANGED <<admVars, solicitacoes, conexoes_ativas, processing_tasks, otherTasks,
                 handler, cancel, retry, hist>>

\* the deadline expires during the fulfilment: wait_for cancels the call
\* (CancelledError is no Exception) and raises TimeoutError
item_fulfil_timeout(b) ==
  /\ T(b).pc = "item_fulfil"
  /\ MarkItemError(b, "timeout")
  /\ task' = [task EXCEPT ![b] = NextItem([@ EXCEPT !.failed_requests = @ + 1])]
  /\ hist' = [hist EXCEPT ![b].faults = TRUE]
  /\ UNCHANGED <<admVars, solicitacoes, conexoes_ativas, processing_tasks, otherTasks,
                 handler, cancel, retry>>

\* the deadline expires while the commit of the completed item is awaited:
\* item.status, item.xml_url and batch.completed_requests were assigned in
\* the session's memory before the await, wait_for cancels the call, and the
\* commit of _mark_item_error writes them together with the error
item_commit_timeout(b) ==
  /\ T(b).pc = "item_fulfil"
  /\ ~BatchRowLocked(b)
  /\ batch_request_items' =
       [batch_request_items EXCEPT ![b][CurItem(b)].status = "error",
                                   ![b][CurItem(b)].xml_url = TRUE,
                                   ![b][CurItem(b)].error_message = "timeout"]
  /\ batch_requests' =
       [batch_requests EXCEPT ![b].completed_requests = T(b).completed_requests + 1,
                              ![b].failed_requests = T(b).failed_requests + 1]
  /\ task' = [task EXCEPT ![b] = NextItem([@ EXCEPT !.completed_requests = @ + 1,
                                                   !.failed_requests = @ + 1])]
  /\ hist' = [hist EXCEPT ![b].faults = TRUE]
  /\ UNCHANGED <<admVars, solicitacoes, conexoes_ativas, processing_tasks, otherTasks,
                 handler, cancel, retry>>

\* str(cliente.id_cliente): the client_id stored in the item is a string
str(id_cliente) == <<"str", id_cliente>>

\* the keys of conexoes_ativas are the int path parameter of the websocket
\* endpoint; a Python int and a Python str are never equal
conexoes_ativas_keys == {<<"int", id_cliente>> : id_cliente \in conexoes_ativas}

\* a lookup that converts the key first: int(key) in conexoes_ativas
conexoes_ativas_get_int(key) == key[2] \in conexoes_ativas

\* conexoes_ativas.get(key) finds a websocket
conexoes_ativas_get(key) == key \in conexoes_ativas_keys

\* _notify_websocket: with no websocket found it returns without awaiting
\* anything; with one, send_json is awaited inside the wait_for: it returns
\* (sent, or raised and caught), or the deadline expires first and
\* _mark_item_error marks the item that was committed as completed
item_notify(b, returns) ==
  /\ T(b).pc = "item_notify"
  /\ IF conexoes_ativas_get(str(CurItem(b))) /\ ~returns
     THEN /\ MarkItemError(b, "timeout")
          /\ task' = [task EXCEPT ![b] = NextItem([@ EXCEPT !.failed_requests = @ + 1])]
          /\ hist' = [hist EXCEPT ![b].faults = TRUE]
     ELSE /\ task' = [task EXCEPT ![b] = NextItem(@)]
          /\ UNCHANGED <<batch_requests, batch_request_items, hist>>
  /\ UNCHANGED <<admVars, solicitacoes, conexoes_ativas, processing_tasks, otherTasks,
                 handler, cancel, retry>>

\* _update_batch_final_status: the status for the counters in memory
FinalStatus(completed, failed) ==
  IF failed = 0 THEN "completed"
  ELSE IF completed = 0 THEN "error"
  ELSE "completed"

\* the final status decided without the count of the items
agg_count_no_barrier(b) ==
  /\ T(b).pc = "agg_count"
  /\ task' = [task EXCEPT ![b].pc = "agg_commit",
                          ![b].status = FinalStatus(T(b).completed_requests,
                                                    T(b).failed_requests)]
  /\ UNCHANGED <<admVars, batch_requests, batch_request_items, solicitacoes, conexoes_ativas,
                 processing_tasks, otherTasks, handler, cancel, retry, hist>>

\* count the items in completed or error; decide when all are
agg_count(b) ==
  /\ T(b).pc = "agg_count"
  /\ LET processed_count == Cardinality(ItemsWith(b, Terminal)) IN
     task' = [task EXCEPT ![b] =
       IF processed_count >= batch_requests[b].total_requests
       THEN [@ EXCEPT !.pc = "agg_commit",
                      !.status = FinalStatus(T(b).completed_requests,
                                           T(b).failed_requests)]
       ELSE [@ EXCEPT !.pc = "done"]]
  /\ UNCHANGED <<admVars, batch_requests, batch_request_items, solicitacoes, conexoes_ativas,
                 processing_tasks, otherTasks, handler, cancel, retry, hist>>

\* batch.completed_at = now; commit
agg_commit(b) ==
  /\ T(b).pc = "agg_commit"
  /\ ~BatchRowLocked(b)
  /\ batch_requests' = [batch_requests EXCEPT ![b].status = T(b).status,
                                              ![b].completed_at = TRUE]
  /\ hist' = [hist EXCEPT ![b].aggregated = T(b).status,
                          ![b].agg_completed = batch_requests[b].completed_requests]
  /\ task' = [task EXCEPT ![b].pc = "done"]
  /\ UNCHANGED <<admVars, batch_request_items, solicitacoes, conexoes_ativas,
                 processing_tasks, otherTasks, handler, cancel, retry>>

\* A call on the session raises inside the try of _process_batch_async, after
\* the batch was committed as processing: the select of the pending items,
\* the count of _update_batch_final_status or its commit.  except Exception
\* takes over: batch.status = "error", batch.completed_at = now.
orchestration_raises(b) ==
  /\ T(b).pc \in {"select_items", "agg_count", "agg_commit"}
  /\ task' = [task EXCEPT ![b].pc = "recover", ![b].status = "error"]
  /\ hist' = [hist EXCEPT ![b].raised = TRUE]
  /\ UNCHANGED <<admVars, batch_requests, batch_request_items, solicitacoes, conexoes_ativas,
                 processing_tasks, otherTasks, handler, cancel, retry>>

\* the commit of the except block returns
recover_commit(b) ==
  /\ T(b).pc = "recover"
  /\ ~BatchRowLocked(b)
  /\ batch_requests' = [batch_requests EXCEPT ![b].status = T(b).status,
                                              ![b].completed_at = TRUE]
  /\ task' = [task EXCEPT ![b].pc = "done"]
  /\ UNCHANGED <<admVars, batch_request_items, solicitacoes, conexoes_ativas,
                 processing_tasks, otherTasks, handler, cancel, retry, hist>>

\* the commit of the except block raises on the session that has just failed:
\* "except: pass" drops the exception and the row keeps what it had
recover_raises(b) ==
  /\ T(b).pc = "recover"
  /\ task' = [task EXCEPT ![b].pc = "done"]
  /\ UNCHANGED <<admVars, batch_requests, batch_request_items, solicitacoes, conexoes_ativas,
                 processing_tasks, otherTasks, handler, cancel, retry, hist>>

\* process_batch that returns without the pop of its finally
process_batch_finally_keeps(b) ==
  /\ T(b).pc = "done"
  /\ task' = [task EXCEPT ![b] = NoTask]
  /\ handler' = [handler EXCEPT ![b] = IF @ = "awaiting" THEN "responded" ELSE @]
  /\ UNCHANGED <<admVars, batch_requests, batch_request_items, solicitacoes, conexoes_ativas,
                 processing_tasks, otherTasks, cancel, retry, hist>>

\* process_batch after "await task": the task has ended, by a return, by an
\* exception or by CancelledError; finally: self.processing_tasks.pop
process_batch_finally(b) ==
  /\ T(b).pc = "done"
  /\ processing_tasks' = processing_tasks \ {b}
  /\ task' = [task EXCEPT ![b] = NoTask]
  /\ handler' = [handler EXCEPT ![b] = IF @ = "awaiting" THEN "responded" ELSE @]
  /\ UNCHANGED <<admVars, batch_requests, batch_request_items, solicitacoes, conexoes_ativas,
                 otherTasks, cancel, retry, hist>>

\* process_batch called with an id that has no row in batch_requests
process_batch_unknown(b) ==
  /\ handler[b] = "none"
  /\ batch_requests[b].status = NoRow
  /\ ProcessBatchEffect(b)
  /\ handler' = [handler EXCEPT ![b] =
       IF ProcessBatchOutcome(b) = "started" THEN "awaiting" ELSE "responded"]
  /\ UNCHANGED <<admVars, batch_requests, batch_request_items, solicitacoes, conexoes_ativas,
                 otherTasks, cancel, retry>>

\* stop: running = False; task.cancel() on every registered task that is not
\* done.  CancelledError is raised in the task at the await it is suspended
\* at; no except of _process_batch_async or of _process_single_item catches
\* it, the session is closed with nothing more committed, and the task ends.
\* gather waits for the tasks; each process_batch resumes in its except
\* asyncio.CancelledError and runs its finally.
stop ==
  /\ sweeper' = [sweeper EXCEPT !.running = FALSE]
  /\ task' = [b \in Batches |->
       IF b \in processing_tasks /\ T(b).pc # "done"
       THEN [T(b) EXCEPT !.pc = "done"]
       ELSE T(b)]
  /\ UNCHANGED <<batch_requests, batch_request_items, solicitacoes, conexoes_ativas,
                 processing_tasks, otherTasks, handler, cancel, retry, hist,
                 now, user_last_batch, req, owner_batches, limiter, middleware,
                 limpeza>>

\* ------------------------------------------------------------ cancelar_lote
\* select the batch row; 404 without a row, 400 when completed or error
cancel_select(b) ==
  /\ cancel[b].pc = "none"
  /\ batch_requests[b].status \in {"pending", "processing"}
  /\ cancel' = [cancel EXCEPT ![b].pc = "select_items"]
  /\ UNCHANGED <<admVars, batch_requests, batch_request_items, solicitacoes, conexoes_ativas,
                 processing_tasks, otherTasks, task, handler, retry, hist>>

\* batch.status = "error"; select the pending items of the batch
cancel_select_items(b) ==
  /\ cancel[b].pc = "select_items"
  /\ cancel' = [cancel EXCEPT ![b].pc = "commit",
                              ![b].items = ItemsWith(b, {"pending"})]
  /\ UNCHANGED <<admVars, batch_requests, batch_request_items, solicitacoes, conexoes_ativas,
                 processing_tasks, otherTasks, task, handler, retry, hist>>

\* each selected item to error with the cancelled reason; commit
cancel_commit(b) ==
  /\ cancel[b].pc = "commit"
  /\ batch_requests' = [batch_requests EXCEPT ![b].status = "error",
                                              ![b].completed_at = TRUE]
  /\ batch_request_items' = [batch_request_items EXCEPT ![b] =
       [i \in ItemIdx |-> IF i \in cancel[b].items
                          THEN [@[i] EXCEPT !.status = "error",
                                            !.error_message = "cancelled"]
                          ELSE @[i]]]
  /\ cancel' = [cancel EXCEPT ![b] = NoCancel]
  /\ hist' = [hist EXCEPT ![b].cancelled = TRUE]
  /\ UNCHANGED <<admVars, solicitacoes, conexoes_ativas, processing_tasks, otherTasks,
                 task, handler, retry>>

\* ------------------------------------------------------------- RetryService
\* ten seconds pass since data_solicitacao of a work unit
unit_ages(u) ==
  /\ u \in 1..Len(solicitacoes)
  /\ ~solicitacoes[u].aged
  /\ solicitacoes' = [solicitacoes EXCEPT ![u].aged = TRUE]
  /\ UNCHANGED <<admVars, batch_requests, batch_request_items, conexoes_ativas,
                 processing_tasks, otherTasks, task, handler, cancel, retry, hist>>

\* PUT /auth/solicitacoes/status, called by the desktop client: the status of
\* the work unit becomes the string of the request, whatever it is.
UnitStatuses == {"pendente", "concluida", "sem_conexao"}

atualizar_status_solicitacao(u, novo_status) ==
  /\ u \in 1..Len(solicitacoes)
  /\ solicitacoes[u].status # novo_status
  /\ solicitacoes' = [solicitacoes EXCEPT ![u].status = novo_status]
  /\ UNCHANGED <<admVars, batch_requests, batch_request_items, conexoes_ativas,
                 processing_tasks, otherTasks, task, handler, cancel, retry, hist>>

\* a cycle that selects the old rows whatever their status
retry_select_any_status ==
  /\ retry.pc = "sleep"
  /\ LET sel == {u \in 1..Len(solicitacoes) : solicitacoes[u].aged}
     IN /\ sel # {}
        /\ retry' = [NoRetry EXCEPT !.pc = "process", !.pending = SortedSeq(sel)]
  /\ UNCHANGED <<admVars, batch_requests, batch_request_items, solicitacoes, conexoes_ativas,
                 processing_tasks, otherTasks, task, handler, cancel, hist>>

\* _process_pending_requests: a new session selects the rows in pendente that
\* are older than 10 seconds; the row objects are new, without tentativas
retry_select ==
  /\ retry.pc = "sleep"
  /\ LET sel == {u \in 1..Len(solicitacoes) :
                   solicitacoes[u].status = "pendente" /\ solicitacoes[u].aged}
     IN /\ sel # {}
        /\ retry' = [NoRetry EXCEPT !.pc = "process", !.pending = SortedSeq(sel)]
  /\ UNCHANGED <<admVars, batch_requests, batch_request_items, solicitacoes, conexoes_ativas,
                 processing_tasks, otherTasks, task, handler, cancel, hist>>

RetryAdvance(r) ==
  [r EXCEPT !.pending = Tail(@),
            !.pc = IF Len(r.pending) = 1 THEN "sleep" ELSE "process"]

\* _increment_retry_count: tentativas of the row object (0 when the object has
\* no such attribute) plus one; sem_conexao from RetryLimit on; commit.
\* Solicitacao maps no tentativas column: the commit stores the status only.
IncrementRetryCount(u) ==
  LET before == IF retry.tentativas[u] = -1 THEN 0 ELSE retry.tentativas[u]
      after == before + 1
  IN /\ solicitacoes[u].failed_attempts < MaxFailedAttempts
     /\ solicitacoes' = [solicitacoes EXCEPT
          ![u].status = IF after >= RetryLimit THEN "sem_conexao" ELSE @,
          ![u].failed_attempts = @ + 1]
     /\ retry' = [RetryAdvance(retry) EXCEPT !.tentativas[u] = after]

\* _process_single_request, client connected and send_json returns
retry_send_ok ==
  /\ retry.pc = "process"
  /\ solicitacoes[Head(retry.pending)].id_cliente \in conexoes_ativas
  /\ retry' = RetryAdvance(retry)
  /\ UNCHANGED <<admVars, batch_requests, batch_request_items, solicitacoes, conexoes_ativas,
                 processing_tasks, otherTasks, task, handler, cancel, hist>>

\* client connected and send_json raises
retry_send_raises ==
  /\ retry.pc = "process"
  /\ solicitacoes[Head(retry.pending)].id_cliente \in conexoes_ativas
  /\ IncrementRetryCount(Head(retry.pending))
  /\ UNCHANGED <<admVars, batch_requests, batch_request_items, conexoes_ativas,
                 processing_tasks, otherTasks, task, handler, cancel, hist>>

\* The select of the unit's client or the commit of its attempt counter
\* raises: nothing in _process_pending_requests catches it, the for loop is
\* left with the units still to handle, _retry_loop logs it and sleeps.
retry_raises ==
  /\ retry.pc = "process"
  /\ retry' = NoRetry
  /\ UNCHANGED <<admVars, batch_requests, batch_request_items, solicitacoes, conexoes_ativas,
                 processing_tasks, otherTasks, task, handler, cancel, hist>>

\* client not connected
retry_no_connection ==
  /\ retry.pc = "process"
  /\ solicitacoes[Head(retry.pending)].id_cliente \notin conexoes_ativas
  /\ IncrementRetryCount(Head(retry.pending))
  /\ UNCHANGED <<admVars, batch_requests, batch_request_items, conexoes_ativas,
                 processing_tasks, otherTasks, task, handler, cancel, hist>>

\* ------------------------------------------------------ request validation
Range(s) == {s[i] : i \in DOMAIN s}

\* A client id is the number its string denotes (int(client_id)); a negative
\* number stands for a string that does not match ^\d+$.  Clients 1, 2, ... are
\* the accountant's rows of the clients table; client 0 is another accountant's.
Numeric(id) == id >= 0
SmallIds == {-1, 0, 1, 2}
\* the lists over SmallIds of length n or less
RECURSIVE ListsUpTo(_)
ListsUpTo(n) ==
  IF n = 0 THEN {<<>>}
  ELSE LET S == ListsUpTo(n - 1)
       IN {l : l \in S \cup {Append(t, c) : t \in {u \in S : Len(u) = n - 1},
                                            c \in SmallIds}}
ShortLists == ListsUpTo(MaxListLen)
LongLists == {[i \in 1..n |-> i] : n \in {MaxClientsPerBatch, MaxClientsPerBatch + 1}}
TargetLists == {l : l \in ShortLists \cup LongLists}

\* Cliente.id_contador == contador.id_contador
OwnedBy(c) == c >= 1

\* date.today()
Today == 0

Days == {Today - MaxAgeDays - 1, Today - MaxAgeDays,
         Today - MaxPeriodDays - 1, Today - MaxPeriodDays, Today, Today + 1}
DateStrings ==
  {v : v \in {[ok |-> FALSE, day |-> Today]} \cup {isoformat(d) : d \in Days}}

\* BatchValidator.validate_client_ids: the message of the first rule broken
validate_client_ids(client_ids) ==
  IF Len(client_ids) = 0 THEN "Lista de clientes nao pode estar vazia"
  ELSE IF Len(client_ids) > MaxClientsPerBatch THEN "Maximo de 50 clientes por lote"
  ELSE IF \E i \in DOMAIN client_ids : ~Numeric(client_ids[i])
       THEN "IDs de clientes invalidos"
  ELSE "ok"

\* the period check that takes any span
NoPeriodLimit(inicio, fim) == FALSE

\* if diff.days > 365
PeriodTooLong(inicio, fim) == fim - inicio > MaxPeriodDays

\* validate_dates with the age of the start checked before the span
validate_dates_age_first(data_inicio, data_fim) ==
  IF ~data_inicio.ok THEN "Data de inicio invalida"
  ELSE IF ~data_fim.ok THEN "Data de fim invalida"
  ELSE LET inicio == strptime(data_inicio)
           fim == strptime(data_fim)
       IN IF inicio > fim
          THEN "Data de inicio deve ser menor ou igual a data de fim"
          ELSE IF inicio < Today - MaxAgeDays THEN "Data de inicio muito antiga"
          ELSE IF PeriodTooLong(inicio, fim)
          THEN "Periodo maximo permitido e de 12 meses"
          ELSE IF fim > Today THEN "Data de fim nao pode ser futura"
          ELSE "ok"

\* BatchValidator.validate_dates: the message of the first rule broken
validate_dates(data_inicio, data_fim) ==
  IF ~data_inicio.ok THEN "Data de inicio invalida"
  ELSE IF ~data_fim.ok THEN "Data de fim invalida"
  ELSE LET inicio == strptime(data_inicio)
           fim == strptime(data_fim)
       IN IF inicio > fim
          THEN "Data de inicio deve ser menor ou igual a data de fim"
          ELSE IF PeriodTooLong(inicio, fim)
          THEN "Periodo maximo permitido e de 12 meses"
          ELSE IF inicio < Today - MaxAgeDays THEN "Data de inicio muito antiga"
          ELSE IF fim > Today THEN "Data de fim nao pode ser futura"
          ELSE "ok"

\* The pydantic validators of CriarSolicitacaoLote: one message per field that
\* fails (client_ids; data_inicio and data_fim, which share their message).
FieldErrors(client_ids, data_inicio, data_fim) ==
  (IF validate_client_ids(client_ids) # "ok"
   THEN {validate_client_ids(client_ids)} ELSE {})
  \cup (IF ~data_inicio.ok \/ ~data_fim.ok
        THEN {"Formato de data invalido. Use YYYY-MM-DD"} ELSE {})

\* CriarSolicitacaoLote.validate_date_range, on the dates the validators parsed
validate_date_range(data_inicio, data_fim) ==
  validate_dates(isoformat(strptime(data_inicio)), isoformat(strptime(data_fim)))

\* A ValueError of validate_date_range raised inside the handler's try: it is
\* no HTTPException, so "except Exception" answers it.
InternalError(message) == [status |-> 500, detail |-> {message}]

\* the answer the request gets before its first await, or NoResponse
Rejection(client_ids, data_inicio, data_fim) ==
  IF FieldErrors(client_ids, data_inicio, data_fim) # {}
  THEN [status |-> 422, detail |-> FieldErrors(client_ids, data_inicio, data_fim)]
  ELSE IF validate_date_range(data_inicio, data_fim) # "ok"
  THEN InternalError(validate_date_range(data_inicio, data_fim))
  ELSE NoResponse

\* ------------------------------------------- criar_solicitacao_lote, admission
R(r) == req[r]
OwnerRows == owner_batches.active + owner_batches.terminal
Answer(r, response) ==
  req' = [req EXCEPT ![r].pc = "responded", ![r].response = response]

\* The request arrives: the body is validated, then validate_date_range, then
\* verificar_rate_limit up to its first await (now = datetime.now()).
criar_receive(r, client_ids, data_inicio, data_fim) ==
  /\ R(r).pc = "idle"
  /\ OwnerRows + Cardinality({q \in Requests : req[q].pc
        \in {"count", "rate_limit", "select_clientes", "commit_batch"}}) < MaxBatches
  /\ LET rej == Rejection(client_ids, data_inicio, data_fim) IN
     req' = [req EXCEPT ![r] =
       [NoReq EXCEPT !.client_ids = client_ids, !.data_inicio = data_inicio,
                     !.data_fim = data_fim, !.response = rej,
                     !.pc = IF rej # NoResponse THEN "responded" ELSE "count",
                     !.now = IF rej # NoResponse THEN 0 ELSE now]]
  /\ UNCHANGED <<batch_requests, batch_request_items, solicitacoes, conexoes_ativas,
                 processing_tasks, otherTasks, task, handler, cancel, retry, hist,
                 now, user_last_batch, owner_batches, limiter, middleware, sweeper,
                 limpeza>>

\* get_active_batches_count: the owner's rows in pending or processing
get_active_batches_count(r) ==
  /\ R(r).pc = "count"
  /\ req' = [req EXCEPT ![r].pc = "rate_limit",
                        ![r].active_batches = owner_batches.active]
  /\ UNCHANGED <<batch_requests, batch_request_items, solicitacoes, conexoes_ativas,
                 processing_tasks, otherTasks, task, handler, cancel, retry, hist,
                 now, user_last_batch, owner_batches, limiter, middleware, sweeper,
                 limpeza>>

\* if active_batches > 5
ActiveLimitOffByOne(n) == n > MaxActiveBatches

\* if active_batches >= 5
ActiveLimitReached(n) == n >= MaxActiveBatches

\* if time_diff.total_seconds() < 30
InCooldown(t, last) == t - last < Cooldown

RateLimitAllows(r) ==
  /\ ~ActiveLimitReached(R(r).active_batches)
  /\ ~(Owner \in DOMAIN user_last_batch /\ InCooldown(R(r).now, user_last_batch[Owner]))

\* verificar_rate_limit that notes the time of every attempt
verificar_rate_limit_stamping(r) ==
  /\ R(r).pc = "rate_limit"
  /\ user_last_batch' = [o \in DOMAIN user_last_batch \cup {Owner} |-> now]
  /\ IF RateLimitAllows(r)
     THEN req' = [req EXCEPT ![r].pc = "select_clientes",
                             ![r].now = 0, ![r].active_batches = 0]
     ELSE Answer(r, [status |-> 429, detail |-> {"rate_limit_exceeded"}])
  /\ UNCHANGED <<batch_requests, batch_request_items, solicitacoes, conexoes_ativas,
                 processing_tasks, otherTasks, task, handler, cancel, retry, hist,
                 now, owner_batches, limiter, middleware, sweeper,
                 limpeza>>

\* verificar_rate_limit after the count, and the 429 of the handler; its locals
\* are gone when it returns True
verificar_rate_limit(r) ==
  /\ R(r).pc = "rate_limit"
  /\ IF RateLimitAllows(r)
     THEN req' = [req EXCEPT ![r].pc = "select_clientes",
                             ![r].now = 0, ![r].active_batches = 0]
     ELSE Answer(r, [status |-> 429, detail |-> {"rate_limit_exceeded"}])
  /\ UNCHANGED <<batch_requests, batch_request_items, solicitacoes, conexoes_ativas,
                 processing_tasks, otherTasks, task, handler, cancel, retry, hist,
                 now, user_last_batch, owner_batches, limiter, middleware, sweeper,
                 limpeza>>

\* select(Cliente) of the owner with id in client_ids: the rows found
clientes(client_ids) == {c \in Range(client_ids) : OwnedBy(c)}

\* if len(clientes) != len(dados.client_ids): 400
AllOwned(client_ids) == Cardinality(clientes(client_ids)) = Len(client_ids)

\* if not clientes_online: 400
SomeOnline(client_ids) == verificar_clientes_online(Range(client_ids)) # {}

\* the select of the clients, the two 400s, and on to the commit of the batch
criar_select_clientes(r) ==
  /\ R(r).pc = "select_clientes"
  /\ IF ~AllOwned(R(r).client_ids)
     THEN Answer(r, [status |-> 400, detail |->
            {"Alguns clientes nao pertencem ao usuario ou nao existem"}])
     ELSE IF ~SomeOnline(R(r).client_ids)
     THEN Answer(r, [status |-> 400, detail |-> {"Nenhum cliente esta online"}])
     ELSE req' = [req EXCEPT ![r].pc = "commit_batch"]
  /\ UNCHANGED <<batch_requests, batch_request_items, solicitacoes, conexoes_ativas,
                 processing_tasks, otherTasks, task, handler, cancel, retry, hist,
                 now, user_last_batch, owner_batches, limiter, middleware, sweeper,
                 limpeza>>

\* db.add(batch); commit: a pending row of the owner
criar_add_batch(r) ==
  /\ R(r).pc = "commit_batch"
  /\ owner_batches' = [owner_batches EXCEPT !.active = @ + 1]
  /\ req' = [req EXCEPT ![r].pc = "commit_items"]
  /\ UNCHANGED <<batch_requests, batch_request_items, solicitacoes, conexoes_ativas,
                 processing_tasks, otherTasks, task, handler, cancel, retry, hist,
                 now, user_last_batch, limiter, middleware, sweeper,
                 limpeza>>

\* for cliente in clientes: db.add(item); commit
criar_add_items(r) ==
  /\ R(r).pc = "commit_items"
  /\ owner_batches' = [owner_batches EXCEPT
       !.items = @ + Cardinality(clientes(R(r).client_ids))]
  /\ req' = [req EXCEPT ![r].pc = "schedule"]
  /\ UNCHANGED <<batch_requests, batch_request_items, solicitacoes, conexoes_ativas,
                 processing_tasks, otherTasks, task, handler, cancel, retry, hist,
                 now, user_last_batch, limiter, middleware, sweeper,
                 limpeza>>

Created == [status |-> 201, detail |-> {"pending"}]

\* user_last_batch[user_id] = datetime.now(); process_batch up to "await task":
\* at the cap it returns at once and the handler answers
criar_schedule(r) ==
  /\ R(r).pc = "schedule"
  /\ user_last_batch' = [o \in DOMAIN user_last_batch \cup {Owner} |-> now]
  /\ IF CapReached
     THEN /\ Answer(r, Created)
          /\ UNCHANGED otherTasks
     ELSE /\ req' = [req EXCEPT ![r].pc = "awaiting"]
          /\ otherTasks' = otherTasks + 1
  /\ UNCHANGED <<batch_requests, batch_request_items, solicitacoes, conexoes_ativas,
                 processing_tasks, task, handler, cancel, retry, hist,
                 now, owner_batches, limiter, middleware, sweeper,
                 limpeza>>

\* the pass of the new batch, as far as admission sees it: the row leaves
\* pending and processing when its final status is committed
criar_pass(r) ==
  /\ R(r).pc = "awaiting"
  /\ owner_batches' = [owner_batches EXCEPT !.active = @ - 1, !.terminal = @ + 1]
  /\ req' = [req EXCEPT ![r].pc = "pass_done"]
  /\ UNCHANGED <<batch_requests, batch_request_items, solicitacoes, conexoes_ativas,
                 processing_tasks, otherTasks, task, handler, cancel, retry, hist,
                 now, user_last_batch, limiter, middleware, sweeper,
                 limpeza>>

\* process_batch pops the task and returns; the handler answers 201
criar_answer(r) ==
  /\ R(r).pc = "pass_done"
  /\ otherTasks' = otherTasks - 1
  /\ Answer(r, Created)
  /\ UNCHANGED <<batch_requests, batch_request_items, solicitacoes, conexoes_ativas,
                 processing_tasks, task, handler, cancel, retry, hist,
                 now, user_last_batch, owner_batches, limiter, middleware, sweeper,
                 limpeza>>

\* the response is sent; the next request of the owner may take the slot
criar_return(r) ==
  /\ R(r).pc = "responded"
  /\ req' = [req EXCEPT ![r] = NoReq]
  /\ UNCHANGED <<batch_requests, batch_request_items, solicitacoes, conexoes_ativas,
                 processing_tasks, otherTasks, task, handler, cancel, retry, hist,
                 now, user_last_batch, owner_batches, limiter, middleware, sweeper,
                 limpeza>>

\* TickSeconds pass
tick ==
  /\ now < MaxTicks * TickSeconds
  /\ now' = now + TickSeconds
  /\ UNCHANGED <<batch_requests, batch_request_items, solicitacoes, conexoes_ativas,
                 processing_tasks, otherTasks, task, handler, cancel, retry, hist,
                 user_last_batch, req, owner_batches, limiter, middleware, sweeper,
                 limpeza>>

\* The process is started again: the tables keep their rows, everything the
\* process held in memory is as after construction.
restart ==
  /\ user_last_batch' = NoOwners
  /\ req' = [r \in Requests |-> NoReq]
  /\ conexoes_ativas' = {}
  /\ processing_tasks' = {}
  /\ otherTasks' = 0
  /\ task' = [b \in Batches |-> NoTask]
  /\ handler' = [b \in Batches |-> "none"]
  /\ cancel' = [b \in Batches |-> NoCancel]
  /\ retry' = NoRetry
  /\ limiter' = [NoLimiter EXCEPT !.last_cleanup = now]
  /\ middleware' = [NoMiddleware EXCEPT !.passed = middleware.passed]
  /\ sweeper' = [NoSweeper EXCEPT !.slept_from = now]
  /\ UNCHANGED <<batch_requests, batch_request_items, solicitacoes, hist,
                 now, owner_batches,
                 limpeza>>

\* ----------------------------------------------------------- rate limiter
\* The values RateLimitMiddleware(app, calls, period) is installed with.
Limits == 1..MaxLimit
Windows == {Hour \div 2, Hour, 2 * Hour}

\* The members of a list of times later than cutoff, in order.
After(times, cutoff) ==
  LET Later(req_time) == req_time > cutoff
  IN SelectSeq(times, Later)

\* RateLimiter._cleanup_old_requests: every key keeps the times of the last
\* hour, whatever the window, and a key left with none is deleted.
cleanup_old_requests(requests) ==
  LET kept == [k \in DOMAIN requests |-> After(requests[k], now - Hour)]
  IN [k \in {j \in DOMAIN kept : kept[j] # <<>>} |-> kept[k]]

\* RateLimiter.is_allowed: the answer and the instance it leaves.
is_allowed(key, limit, window) ==
  LET due == now - limiter.last_cleanup > cleanup_interval
      cleaned == IF due THEN cleanup_old_requests(limiter.requests)
                 ELSE limiter.requests
      user_requests == IF key \in DOMAIN cleaned THEN cleaned[key] ELSE <<>>
      recent == After(user_requests, now - window)
      allowed == Len(recent) < limit
      stored == IF allowed THEN Append(recent, now) ELSE recent
  IN [allowed |-> allowed,
      limiter |-> [requests |-> [k \in DOMAIN cleaned \cup {key} |->
                                  IF k = key THEN stored ELSE cleaned[k]],
                   last_cleanup |-> IF due THEN now ELSE limiter.last_cleanup]]

\* app.add_middleware(RateLimitMiddleware, calls=calls, period=period)
add_middleware(calls, period) ==
  /\ middleware.calls = 0
  /\ middleware' = [middleware EXCEPT !.calls = calls, !.period = period]
  /\ UNCHANGED <<batch_requests, batch_request_items, solicitacoes, conexoes_ativas,
                 processing_tasks, otherTasks, task, handler, cancel, retry, hist,
                 now, user_last_batch, req, owner_batches, limiter, sweeper,
                 limpeza>>

Passed(key) ==
  IF key \in DOMAIN middleware.passed THEN middleware.passed[key] ELSE <<>>

\* RateLimitMiddleware.dispatch for a request of the caller of key: a path
\* outside /auth/solicitacoes/batch goes to call_next (200) unmetered, a path
\* under it is answered 429 unless is_allowed, and then goes to call_next.
dispatch(key, batch_path) ==
  /\ middleware.calls > 0
  /\ Len(Passed(key)) < MaxCalls
  /\ IF batch_path
     THEN LET answer == is_allowed(key, middleware.calls, middleware.period)
          IN /\ limiter' = answer.limiter
             /\ middleware' =
                  IF answer.allowed
                  THEN [middleware EXCEPT
                          !.response = 200,
                          !.passed = [k \in DOMAIN @ \cup {key} |->
                                        IF k = key THEN Append(Passed(key), now)
                                        ELSE @[k]]]
                  ELSE [middleware EXCEPT !.response = 429]
     ELSE /\ middleware' = [middleware EXCEPT !.response = 200]
          /\ UNCHANGED limiter
  /\ UNCHANGED <<batch_requests, batch_request_items, solicitacoes, conexoes_ativas,
                 processing_tasks, otherTasks, task, handler, cancel, retry, hist,
                 now, user_last_batch, req, owner_batches, sweeper,
                 limpeza>>

\* LimiterStep seconds pass
sleep ==
  /\ now < MaxSleeps * LimiterStep
  /\ now' = now + LimiterStep
  /\ UNCHANGED <<batch_requests, batch_request_items, solicitacoes, conexoes_ativas,
                 processing_tasks, otherTasks, task, handler, cancel, retry, hist,
                 user_last_batch, req, owner_batches, limiter, middleware, sweeper,
                 limpeza>>

\* ------------------------------------------------------ _cleanup_old_batches
\* the sweep keeps every batch that is in pending or processing
SweepsAnyStatus(status) == status # NoRow

\* BatchRequest.status.in_(["completed", "error"])
SweptStatus(status) == status \in Terminal

\* BatchRequest.created_at < datetime.now() - timedelta(hours=24)
Old(created_at) == created_at < now - RetentionHours * Hour

\* while self.running: the coroutine sleeps again, or ends after stop()
LoopAgain ==
  [NoSweeper EXCEPT !.slept_from = now, !.running = sweeper.running,
                    !.pc = IF sweeper.running THEN "sleep" ELSE "stopped"]

\* asyncio.sleep(3600) is over: the select of the old terminal batches; with
\* none the coroutine is back at the top of its loop
sweep_select ==
  /\ sweeper.pc = "sleep"
  /\ now - sweeper.slept_from >= SweepInterval
  /\ LET old_batches == {b \in Batches : /\ SweptStatus(batch_requests[b].status)
                                         /\ Old(batch_requests[b].created_at)}
     IN sweeper' = IF old_batches = {}
                   THEN LoopAgain
                   ELSE [pc |-> "commit", slept_from |-> now,
                         old_batches |-> old_batches, running |-> sweeper.running]
  /\ UNCHANGED <<batch_requests, batch_request_items, solicitacoes, conexoes_ativas,
                 processing_tasks, otherTasks, task, handler, cancel, retry, hist,
                 now, user_last_batch, req, owner_batches, limiter, middleware,
                 limpeza>>

\* db.delete of each selected batch and the commit: the rows go, and with
\* them their items (cascade="all, delete-orphan", ondelete="CASCADE")
sweep_commit ==
  /\ sweeper.pc = "commit"
  /\ batch_requests' = [b \in Batches |->
       IF b \in sweeper.old_batches THEN NoBatch ELSE batch_requests[b]]
  /\ batch_request_items' = [b \in Batches |->
       IF b \in sweeper.old_batches THEN [i \in ItemIdx |-> NoItem]
       ELSE batch_request_items[b]]
  /\ sweeper' = LoopAgain
  /\ UNCHANGED <<solicitacoes, conexoes_ativas,
                 processing_tasks, otherTasks, task, handler, cancel, retry, hist,
                 now, user_last_batch, req, owner_batches, limiter, middleware,
                 limpeza>>

\* SweepStep seconds pass
hours_pass ==
  /\ now < MaxSweepSteps * SweepStep
  /\ now' = now + SweepStep
  /\ UNCHANGED <<batch_requests, batch_request_items, solicitacoes, conexoes_ativas,
                 processing_tasks, otherTasks, task, handler, cancel, retry, hist,
                 user_last_batch, req, owner_batches, limiter, middleware, sweeper,
                 limpeza>>

\* ------------------------------------------------- limpar_dados_expirados
\* criar_solicitacao: a row of solicitacoes, committed
criar_solicitacao(s) ==
  /\ s \notin limpeza.solicitacoes
  /\ limpeza' = [limpeza EXCEPT !.solicitacoes = @ \cup {s}]
  /\ UNCHANGED <<batch_requests, batch_request_items, solicitacoes, conexoes_ativas,
                 processing_tasks, otherTasks, task, handler, cancel, retry, hist,
                 now, user_last_batch, req, owner_batches, limiter, middleware, sweeper>>

\* inserir_xml_arquivo: a row of xmls for request s (0: none), committed.
\* expiracao is the one the caller sends (here an hour ago) or, without one,
\* data_envio + 24 hours with data_envio = now.  The foreign key needs the row
\* of s, and waits for a transaction that has deleted it.
inserir_xml_arquivo(s, sent_expired) ==
  /\ limpeza.next_xml <= MaxXmls
  /\ s = 0 \/ s \in limpeza.solicitacoes \ limpeza.deleted_solicitacoes
  /\ limpeza' = [limpeza EXCEPT
       !.xmls[limpeza.next_xml] =
          [stored |-> TRUE,
           expiracao |-> IF sent_expired THEN now - Hour
                         ELSE now + ValidityHours * Hour,
           id_solicitacao |-> s],
       !.next_xml = @ + 1]
  /\ UNCHANGED <<batch_requests, batch_request_items, solicitacoes, conexoes_ativas,
                 processing_tasks, otherTasks, task, handler, cancel, retry, hist,
                 now, user_last_batch, req, owner_batches, limiter, middleware, sweeper>>

\* XML.expiracao < agora
Expired(row, agora) == row.stored /\ row.expiracao < agora

\* agora = now; the id_solicitacao, where not None, of the expired rows of xmls
limpar_select ==
  /\ limpeza.pc = "idle"
  /\ limpeza' = [limpeza EXCEPT
       !.pc = "delete_xmls",
       !.agora = now,
       !.ids_solicitacoes_expiradas =
          {limpeza.xmls[x].id_solicitacao :
             x \in {y \in 1..MaxXmls : Expired(limpeza.xmls[y], now)}} \ {0},
       !.at_start = {x \in 1..MaxXmls : limpeza.xmls[x].stored}]
  /\ UNCHANGED <<batch_requests, batch_request_items, solicitacoes, conexoes_ativas,
                 processing_tasks, otherTasks, task, handler, cancel, retry, hist,
                 now, user_last_batch, req, owner_batches, limiter, middleware, sweeper>>

\* the second statement: delete the rows of xmls that are expired now
limpar_delete_xmls ==
  /\ limpeza.pc = "delete_xmls"
  /\ limpeza' = [limpeza EXCEPT
       !.pc = "delete_solicitacoes",
       !.deleted_xmls = {x \in 1..MaxXmls : Expired(limpeza.xmls[x], limpeza.agora)}]
  /\ UNCHANGED <<batch_requests, batch_request_items, solicitacoes, conexoes_ativas,
                 processing_tasks, otherTasks, task, handler, cancel, retry, hist,
                 now, user_last_batch, req, owner_batches, limiter, middleware, sweeper>>

\* the transaction is given up: except Exception prints, finally closes the
\* session, nothing of it is committed
LimparRollback ==
  [limpeza EXCEPT !.pc = "idle", !.ids_solicitacoes_expiradas = {},
                  !.deleted_xmls = {}, !.deleted_solicitacoes = {},
                  !.at_start = {}]

\* the third statement: delete the rows of solicitacoes of the ids selected.
\* A row of xmls that is left and references one of them violates the
\* foreign key of xmls.id_solicitacao: the statement raises.
limpar_delete_solicitacoes ==
  /\ limpeza.pc = "delete_solicitacoes"
  /\ LET target == limpeza.ids_solicitacoes_expiradas \cap limpeza.solicitacoes
         left == {x \in 1..MaxXmls : limpeza.xmls[x].stored} \ limpeza.deleted_xmls
     IN limpeza' =
          IF \E x \in left : limpeza.xmls[x].id_solicitacao \in target
          THEN LimparRollback
          ELSE [limpeza EXCEPT !.pc = "commit", !.deleted_solicitacoes = target]
  /\ UNCHANGED <<batch_requests, batch_request_items, solicitacoes, conexoes_ativas,
                 processing_tasks, otherTasks, task, handler, cancel, retry, hist,
                 now, user_last_batch, req, owner_batches, limiter, middleware, sweeper>>

\* db.commit()
limpar_commit ==
  /\ limpeza.pc = "commit"
  /\ limpeza' = [LimparRollback EXCEPT
       !.xmls = [x \in 1..MaxXmls |->
                   IF x \in limpeza.deleted_xmls THEN NoXml ELSE limpeza.xmls[x]],
       !.solicitacoes = @ \ limpeza.deleted_solicitacoes]
  /\ UNCHANGED <<batch_requests, batch_request_items, solicitacoes, conexoes_ativas,
                 processing_tasks, otherTasks, task, handler, cancel, retry, hist,
                 now, user_last_batch, req, owner_batches, limiter, middleware, sweeper>>

\* a statement or the commit raises
limpar_raises ==
  /\ limpeza.pc \in {"delete_xmls", "delete_solicitacoes", "commit"}
  /\ limpeza' = LimparRollback
  /\ UNCHANGED <<batch_requests, batch_request_items, solicitacoes, conexoes_ativas,
                 processing_tasks, otherTasks, task, handler, cancel, retry, hist,
                 now, user_last_batch, req, owner_batches, limiter, middleware, sweeper>>

\* ------------------------------------------------------------------- Next
Registry ==
  \/ \E c \in Clients : ws_connect(c)
  \/ \E c \in Clients : ws_disconnect(c)

Create ==
  \/ \E b \in Batches, n \in 1..MaxItems : criar_commit_batch(b, n)
  \/ \E b \in Batches : criar_commit_items(b)
  \/ \E b \in Batches : criar_process_batch(b)

Pass ==
  \/ \E b \in Batches : select_batch(b)
  \/ \E b \in Batches : commit_processing(b)
  \/ \E b \in Batches : select_items(b)
  \/ \E b \in Batches : item_begin(b)
  \/ \E b \in Batches : item_create(b)
  \/ \E b \in Batches : item_fulfil_ok(b)
  \/ \E b \in Batches, returns \in BOOLEAN : item_notify(b, returns)
  \/ \E b \in Batches : agg_count(b)
  \/ \E b \in Batches : agg_commit(b)
  \/ \E b \in Batches : process_batch_finally(b)

Faults ==
  \/ \E b \in Batches : item_fulfil_raises(b)
  \/ \E b \in Batches : item_reraised(b)
  \/ \E b \in Batches : item_fulfil_timeout(b)
  \/ \E b \in Batches : item_commit_timeout(b)

Cancel ==
  \/ \E b \in Batches : cancel_select(b)
  \/ \E b \in Batches : cancel_select_items(b)
  \/ \E b \in Batches : cancel_commit(b)

Others ==
  \/ other_process_batch
  \/ other_finish

Next ==
  \/ Registry
  \/ Create
  \/ Pass
  \/ Faults
  \/ Cancel
  \/ Others
  \/ \E b \in Batches : reschedule(b)

Spec == Init /\ [][Next]_vars

\* The orchestrator with no cancel request.
NextNoCancel ==
  \/ Registry
  \/ Create
  \/ Pass
  \/ Faults
  \/ Others
  \/ \E b \in Batches : reschedule(b)

SpecNoCancel == Init /\ [][NextNoCancel]_vars

\* The orchestrator with no cancel request, with calls on the pass's session
\* that raise.
Raises ==
  \/ \E b \in Batches : orchestration_raises(b)
  \/ \E b \in Batches : recover_commit(b)
  \/ \E b \in Batches : recover_raises(b)

NextRaises ==
  \/ NextNoCancel
  \/ Raises

SpecRaises == Init /\ [][NextRaises]_vars

\* The same, with stop() at any moment and with process_batch called for an
\* id that has no row.
NextStop ==
  \/ NextRaises
  \/ \E b \in Batches : process_batch_unknown(b)
  \/ stop

SpecStop == Init /\ [][NextStop]_vars

\* The retention sweep beside the creation and the pass of a batch, with
\* item failures and a clock.
NextSweep ==
  \/ Registry
  \/ Create
  \/ Pass
  \/ Faults
  \/ sweep_select
  \/ sweep_commit
  \/ hours_pass

SpecSweep == Init /\ [][NextSweep]_vars

\* _update_batch_final_status on every batch of up to MaxItems items: the
\* batch is in processing, its items hold any status, the counters of the
\* pass any value up to the number of items; a cancel request may run beside.
ItemStatuses == {"pending", "processing", "completed", "error"}

InitAggregate ==
  \E n \in 1..MaxItems :
    \E statuses \in [1..n -> ItemStatuses], completed \in 0..n, failed \in 0..n :
      /\ batch_requests = [b \in Batches |->
           [NoBatch EXCEPT !.status = "processing", !.total_requests = n,
                           !.completed_requests = completed,
                           !.failed_requests = failed]]
      /\ batch_request_items = [b \in Batches |-> [i \in ItemIdx |->
           IF i <= n THEN [NoItem EXCEPT !.status = statuses[i]] ELSE NoItem]]
      /\ solicitacoes = <<>>
      /\ conexoes_ativas = {}
      /\ processing_tasks = Batches
      /\ otherTasks = 0
      /\ task = [b \in Batches |->
           [NoTask EXCEPT !.pc = "agg_count", !.status = "processing",
                          !.completed_requests = completed,
                          !.failed_requests = failed]]
      /\ handler = [b \in Batches |-> "awaiting"]
      /\ cancel = [b \in Batches |-> NoCancel]
      /\ retry = NoRetry
      /\ hist = [b \in Batches |-> [NoHist EXCEPT !.passes = 1]]
      /\ now = 0
      /\ user_last_batch = NoOwners
      /\ req = [r \in Requests |-> NoReq]
      /\ owner_batches = NoOwnerBatches
      /\ limiter = NoLimiter
      /\ middleware = NoMiddleware
      /\ sweeper = NoSweeper
      /\ limpeza = NoLimpeza

NextAggregate ==
  \/ \E b \in Batches : agg_count(b)
  \/ \E b \in Batches : agg_commit(b)
  \/ \E b \in Batches : process_batch_finally(b)
  \/ Cancel

SpecAggregate == InitAggregate /\ [][NextAggregate]_vars

\* limpar_dados_expirados beside the requests that insert rows of xmls and of
\* solicitacoes, with a clock.
NextLimpeza ==
  \/ \E s \in 1..MaxXmls : criar_solicitacao(s)
  \/ \E s \in 0..MaxXmls, sent_expired \in BOOLEAN : inserir_xml_arquivo(s, sent_expired)
  \/ limpar_select
  \/ limpar_delete_xmls
  \/ limpar_delete_solicitacoes
  \/ limpar_commit
  \/ limpar_raises
  \/ hours_pass

SpecLimpeza == Init /\ [][NextLimpeza]_vars

\* The retry loop beside the passes: no fault, no cancel request.
Retry ==
  \/ \E u \in 1..MaxUnits : unit_ages(u)
  \/ retry_select
  \/ retry_send_ok
  \/ retry_send_raises
  \/ retry_no_connection

NextRetry ==
  \/ Registry
  \/ Create
  \/ Pass
  \/ Retry

SpecRetry == Init /\ [][NextRetry]_vars

\* The same with calls on the cycle's session that raise.
NextRetryRaises ==
  \/ NextRetry
  \/ retry_raises

SpecRetryRaises == Init /\ [][NextRetryRaises]_vars

\* The scenario of a batch while client 1 stays connected and client 2 stays
\* disconnected: no connect, no disconnect, no fault, no cancel request.
InitScenario == InitWith({1})

NextScenario ==
  \/ Create
  \/ Pass
  \/ Retry

SpecScenario == InitScenario /\ [][NextScenario]_vars

\* The retry loop beside the passes and the status updates of the desktop
\* client, while client 1 stays connected.
NextRetryStatus ==
  \/ NextScenario
  \/ \E u \in 1..MaxUnits, novo_status \in UnitStatuses :
       atualizar_status_solicitacao(u, novo_status)

SpecRetryStatus == InitScenario /\ [][NextRetryStatus]_vars

\* The orchestrator as the program runs it: process_batch is called by the
\* creation handler only.  The event loop runs every coroutine that can go on:
\* a started pass, a started handler and a started cancel request each take
\* their next step, and a fulfilment ends, raises or meets its deadline.
PassStep(b) ==
  \/ select_batch(b)
  \/ commit_processing(b)
  \/ select_items(b)
  \/ item_begin(b)
  \/ item_create(b)
  \/ item_fulfil_ok(b)
  \/ item_fulfil_raises(b)
  \/ item_fulfil_timeout(b)
  \/ item_reraised(b)
  \/ \E returns \in BOOLEAN : item_notify(b, returns)
  \/ item_commit_timeout(b)
  \/ agg_count(b)
  \/ agg_commit(b)
  \/ process_batch_finally(b)

NextLive ==
  \/ Registry
  \/ Create
  \/ Pass
  \/ Faults
  \/ Cancel
  \/ Others

Fairness ==
  \A b \in Batches :
    /\ WF_vars(PassStep(b))
    /\ WF_vars(criar_commit_items(b) \/ criar_process_batch(b))
    /\ WF_vars(cancel_select_items(b) \/ cancel_commit(b))

SpecLive == Init /\ [][NextLive]_vars /\ Fairness

\* The same with no cancel request.
NextLiveNoCancel ==
  \/ Registry
  \/ Create
  \/ Pass
  \/ Faults
  \/ Others

SpecLiveNoCancel == Init /\ [][NextLiveNoCancel]_vars /\ Fairness

\* A request of the owner arrives on a free slot, with a body drawn from the
\* given target lists and date strings.
Receive(r, lists, inicios, fins) ==
  /\ R(r).pc = "idle"
  /\ \E client_ids \in lists, data_inicio \in inicios, data_fim \in fins :
       criar_receive(r, client_ids, data_inicio, data_fim)

\* The steps of a creation request once it has passed the validation of its body.
Handle(r) ==
  \/ get_active_batches_count(r)
  \/ verificar_rate_limit(r)
  \/ criar_select_clientes(r)
  \/ criar_add_batch(r)
  \/ criar_add_items(r)
  \/ criar_schedule(r)
  \/ criar_pass(r)
  \/ criar_answer(r)
  \/ criar_return(r)

\* websocket_endpoint of the clients the target lists name
Registry12 ==
  \/ \E c \in {1, 2} : ws_connect(c)
  \/ \E c \in {1, 2} : ws_disconnect(c)

\* Validation of the owner's requests, one at a time, whatever they ask for;
\* no time passes.
NextValidation ==
  \/ Registry12
  \/ Receive("r1", TargetLists, DateStrings, DateStrings)
  \/ Handle("r1")

SpecValidation == Init /\ [][NextValidation]_vars

\* Admission of the owner's requests, one at a time, as time passes: any short
\* target list, for today or for a period that is too long.
NextAdmission ==
  \/ Registry12
  \/ Receive("r1", ShortLists,
             {isoformat(Today), isoformat(Today - MaxPeriodDays - 1)}, {isoformat(Today)})
  \/ Handle("r1")
  \/ tick

SpecAdmission == Init /\ [][NextAdmission]_vars

\* The throttle under concurrent requests of the owner, each for client 1 and
\* for today, while client 1 stays connected.
NextThrottle ==
  \/ \E r \in Requests : Receive(r, {<<1>>}, {isoformat(Today)}, {isoformat(Today)})
  \/ \E r \in Requests : Handle(r)
  \/ tick

SpecThrottle == InitWith({1}) /\ [][NextThrottle]_vars

\* The same, with the process started again at any moment and client 1
\* connecting again.
NextRestart ==
  \/ NextThrottle
  \/ restart
  \/ ws_connect(1)

SpecRestart == InitWith({1}) /\ [][NextRestart]_vars

\* The rate limiter behind an installed middleware, two callers and a clock.
NextLimiter ==
  \/ \E calls \in Limits, period \in Windows : add_middleware(calls, period)
  \/ \E key \in Keys, batch_path \in BOOLEAN : dispatch(key, batch_path)
  \/ sleep

SpecLimiter == Init /\ [][NextLimiter]_vars

\* ====================================================== properties
Tracked == Cardinality(processing_tasks) + otherTasks

Sum(b) == batch_requests[b].completed_requests + batch_requests[b].failed_requests

\* C1: in every reachable state of every batch,
\* completed_requests + failed_requests <= total_requests.
C1_CountersWithinTotal ==
  \A b \in Batches : Sum(b) <= batch_requests[b].total_requests

\* C2: an item in completed or error never changes its status again, and an
\* item moves only pending -> processing -> completed | error, or
\* pending -> error (by cancellation).
ItemMoves ==
  {<<"none", "pending">>, <<"pending", "processing">>, <<"pending", "error">>,
   <<"processing", "completed">>, <<"processing", "error">>}

C2_TerminalItemsFinal ==
  [][\A b \in Batches, i \in ItemIdx :
       LET old == batch_request_items[b][i].status
           new == batch_request_items'[b][i].status
       IN new # old => /\ old \notin Terminal
                       /\ <<old, new>> \in ItemMoves]_vars

\* C3: the status the aggregation step assigns is error if and only if the
\* completed counter of the batch is 0 at that moment, completed otherwise.
C3_AggregatedStatus ==
  \A b \in Batches :
    hist[b].aggregated # "none" =>
      /\ hist[b].aggregated \in Terminal
      /\ hist[b].aggregated = "error" <=> hist[b].agg_completed = 0

\* C4: every batch that was admitted and persisted eventually has
\* completed_requests + failed_requests = total_requests, unless it is
\* cancelled.
C4_EveryBatchCounted ==
  \A b \in Batches :
    (handler[b] = "items_committed") ~>
      (Sum(b) = batch_requests[b].total_requests \/ hist[b].cancelled)

\* C5: a batch whose status is completed or error has
\* completed_requests + failed_requests = total_requests.
C5_TerminalBatchCounted ==
  \A b \in Batches :
    batch_requests[b].status \in Terminal => Sum(b) = batch_requests[b].total_requests

\* C6: however often process_batch is called for a batch, overlapping a running
\* pass or after it, the batch gets one execution pass: it is moved to
\* processing once, no item is moved to processing twice and no item gets a
\* second work unit.
C6_OnePass ==
  \A b \in Batches :
    /\ hist[b].passes <= 1
    /\ \A i \in ItemIdx : /\ hist[b].started[i] <= 1
                          /\ Cardinality(UnitsOf(b, i)) <= 1

\* process_batch was called while the pass was running and again after it was
\* over, and the one pass handled both items.
C6_Witness ==
  \E b \in Batches :
    /\ hist[b].overlapped
    /\ hist[b].reentered
    /\ hist[b].passes = 1
    /\ \A i \in ItemIdx : hist[b].started[i] = 1 /\ Cardinality(UnitsOf(b, i)) = 1

\* C7: the registry never holds more than max_concurrent_batches entries, and
\* a process_batch call that meets the cap starts no task, registers nothing
\* and changes no row: the batch and its items stay as they were (pending).
Dropped(b) ==
  /\ ProcessBatchOutcome(b) = "dropped"
  /\ criar_process_batch(b) \/ reschedule(b)

C7_CapAndDrop ==
  /\ [](Tracked <= max_concurrent_batches)
  /\ [][\A b \in Batches :
          Dropped(b) => /\ UNCHANGED <<batch_requests, batch_request_items, solicitacoes,
                                       processing_tasks, otherTasks, task>>
                        /\ b \notin processing_tasks'
                        /\ handler'[b] = "responded"]_vars

\* the registry is full, the call of the creation handler was dropped, and the
\* batch and its two items are pending with no task
C7_Witness ==
  \E b \in Batches :
    /\ Tracked = max_concurrent_batches
    /\ hist[b].dropped
    /\ b \notin processing_tasks
    /\ task[b].pc = "none"
    /\ batch_requests[b].status = "pending"
    /\ batch_requests[b].total_requests = 2
    /\ \A i \in 1..2 : batch_request_items[b][i].status = "pending"

\* C8: the status of a work unit is sem_conexao exactly when three failed
\* delivery attempts have been recorded for it: never before, always from the
\* third on.
C8_NoConnectionAtThree ==
  \A u \in 1..Len(solicitacoes) :
    solicitacoes[u].status = "sem_conexao" <=> solicitacoes[u].failed_attempts >= RetryLimit

\* C9: a batch of clients 1 (connected) and 2 (disconnected): once the pass is
\* over and three deliveries to client 2 have failed, item 1 is completed with
\* its xml_url, the unit of client 2 is sem_conexao, item 2 is in error and the
\* batch is completed.
C9_Scenario ==
  \A b \in Batches :
    ( /\ batch_requests[b].total_requests = 2
      /\ handler[b] = "responded"
      /\ \E u \in UnitsOf(b, 2) : solicitacoes[u].failed_attempts >= RetryLimit )
    => /\ batch_request_items[b][1].status = "completed"
       /\ batch_request_items[b][1].xml_url
       /\ \A u \in UnitsOf(b, 2) : solicitacoes[u].status = "sem_conexao"
       /\ batch_request_items[b][2].status = "error"
       /\ batch_requests[b].status = "completed"

\* C10: when the aggregation step runs, the completed counter is the number of
\* items in completed and the failed counter the number of items in error.
C10_CountersMatchItems ==
  \A b \in Batches :
    task[b].pc \in {"agg_count", "agg_commit"} =>
      /\ batch_requests[b].completed_requests = Cardinality(ItemsWith(b, {"completed"}))
      /\ batch_requests[b].failed_requests = Cardinality(ItemsWith(b, {"error"}))

\* C11: when a creation of the owner is accepted at time t (the handler writes
\* the owner's timestamp), no other creation of the owner is accepted before
\* t + 30 seconds, however the requests interleave: the request that is being
\* accepted finds no timestamp, or one that is at least Cooldown seconds old.
C11_CooldownRejects ==
  [][\A r \in Requests :
       criar_schedule(r) =>
         \/ Owner \notin DOMAIN user_last_batch
         \/ now - user_last_batch[Owner] >= Cooldown]_vars

\* C12: a creation request whose count of the owner's batches in pending or
\* processing is MaxActiveBatches or more is answered 429, whatever the age of
\* the owner's timestamp.
C12_ActiveCapRejects ==
  [][\A r \in Requests :
       (verificar_rate_limit(r) /\ R(r).active_batches >= MaxActiveBatches)
         => /\ req'[r].pc = "responded"
            /\ req'[r].response.status = 429]_vars

\* a request of the owner was answered 429 with five batches counted, more
\* than Cooldown seconds after the owner's last accepted batch
C12_Witness ==
  \E r \in Requests :
    /\ R(r).pc = "responded"
    /\ R(r).response.status = 429
    /\ R(r).active_batches = MaxActiveBatches
    /\ owner_batches.active = MaxActiveBatches
    /\ Owner \in DOMAIN user_last_batch
    /\ R(r).now - user_last_batch[Owner] > Cooldown

\* C13: a request with 0 targets, with more than 50 targets, with start > end,
\* with a period of more than 365 days or with a start more than 730 days
\* before today is rejected; when the request breaks no other rule of
\* validation, the answer names a case the request is in; and no answer names
\* one of the five cases the request is not in: each has a reason of its own.
CaseNames == {"empty", "too_many", "start_after_end", "period_too_long", "start_too_old"}

FiveCases(d) ==
  {c \in CaseNames :
     \/ c = "empty" /\ Len(d.client_ids) = 0
     \/ c = "too_many" /\ Len(d.client_ids) > 50
     \/ /\ d.data_inicio.ok /\ d.data_fim.ok
        /\ \/ c = "start_after_end" /\ d.data_inicio.day > d.data_fim.day
           \/ c = "period_too_long" /\ d.data_fim.day - d.data_inicio.day > 365
           \/ c = "start_too_old" /\ d.data_inicio.day < Today - 730}

ReasonOf(c) ==
  CASE c = "empty" -> "Lista de clientes nao pode estar vazia"
    [] c = "too_many" -> "Maximo de 50 clientes por lote"
    [] c = "start_after_end" -> "Data de inicio deve ser menor ou igual a data de fim"
    [] c = "period_too_long" -> "Periodo maximo permitido e de 12 meses"
    [] c = "start_too_old" -> "Data de inicio muito antiga"

\* the ids are numeric, the dates well-formed and the end is not in the future
NoOtherRuleBroken(d) ==
  /\ \A i \in DOMAIN d.client_ids : d.client_ids[i] >= 0
  /\ d.data_inicio.ok /\ d.data_fim.ok
  /\ d.data_fim.day <= Today

C13_FiveRejections ==
  \A r \in Requests :
    (R(r).pc # "idle" /\ FiveCases(R(r)) # {}) =>
      /\ R(r).pc = "responded"
      /\ R(r).response.status \notin {0, 201}
      /\ NoOtherRuleBroken(R(r)) =>
           \E c \in FiveCases(R(r)) : ReasonOf(c) \in R(r).response.detail
      /\ \A c \in CaseNames \ FiveCases(R(r)) : ReasonOf(c) \notin R(r).response.detail

\* a request for one client and a period of 366 days ending today was rejected
\* with the reason of the period
C13_Witness ==
  \E r \in Requests :
    /\ R(r).pc = "responded"
    /\ R(r).client_ids = <<1>>
    /\ R(r).data_inicio = isoformat(Today - 366)
    /\ R(r).data_fim = isoformat(Today)
    /\ R(r).response.detail = {ReasonOf("period_too_long")}

\* C14: a request with an empty target list, a malformed date or a period of
\* more than 12 months is answered 422, never 500, and goes no further: no
\* batch is created for it.
C14_ShapeAnswered422 ==
  \A r \in Requests :
    ( /\ R(r).pc # "idle"
      /\ \/ Len(R(r).client_ids) = 0
         \/ ~R(r).data_inicio.ok
         \/ ~R(r).data_fim.ok
         \/ R(r).data_fim.day - R(r).data_inicio.day > 365 )
    => /\ R(r).pc = "responded"
       /\ R(r).response.status = 422

\* C15: the rules are applied in the order target-list shape, period, target
\* ownership and connectivity, throttle: when a request is rejected, it breaks
\* none of the rules that come before the one its answer reports.
ShapeBroken(d) ==
  \/ Len(d.client_ids) = 0 \/ Len(d.client_ids) > 50
  \/ \E i \in DOMAIN d.client_ids : d.client_ids[i] < 0
  \/ ~d.data_inicio.ok \/ ~d.data_fim.ok

PeriodBroken(d) ==
  \/ d.data_inicio.day > d.data_fim.day
  \/ d.data_fim.day - d.data_inicio.day > 365
  \/ d.data_inicio.day < Today - 730
  \/ d.data_fim.day > Today

TargetsBroken(d) ==
  \/ \E i \in DOMAIN d.client_ids : ~OwnedBy(d.client_ids[i])
  \/ \A i \in DOMAIN d.client_ids : d.client_ids[i] \notin conexoes_ativas

C15_EarliestRuleReported ==
  [][\A r \in Requests :
       LET d == req'[r] IN
       (R(r).pc # "responded" /\ d.pc = "responded") =>
         /\ d.response.status = 500 => ~ShapeBroken(d)
         /\ d.response.status = 400 => ~ShapeBroken(d) /\ ~PeriodBroken(d)
         /\ d.response.status = 429 =>
              ~ShapeBroken(d) /\ ~PeriodBroken(d) /\ ~TargetsBroken(d)]_vars

\* C16: when the handler applies the rule of ownership and connectivity, a
\* request with a target the owner does not own, or with no target connected,
\* is answered 400 and no batch or item row is created; a request whose
\* targets are all owned and of which at least one is connected passes the
\* rule and goes on to the commit of its batch.
C16_OwnedAndConnected ==
  [][\A r \in Requests :
       criar_select_clientes(r) =>
         IF TargetsBroken(R(r))
         THEN /\ req'[r].pc = "responded"
              /\ req'[r].response.status = 400
              /\ UNCHANGED owner_batches
         ELSE req'[r].pc = "commit_batch"]_vars

\* C17: every step of a creation request up to and including its rejection
\* (by shape, period, throttle, ownership or connectivity) leaves the batch
\* and item rows, the task registry and the owner's timestamp as they were.
C17_RejectionChangesNothing ==
  [][\A r \in Requests :
       ( /\ req'[r] # req[r]
         /\ req'[r].pc \in {"count", "rate_limit", "select_clientes", "commit_batch",
                            "responded"}
         /\ req'[r].pc = "responded" => req'[r].response.status # 201 )
       => UNCHANGED <<owner_batches, batch_requests, batch_request_items,
                      processing_tasks, otherTasks, user_last_batch>>]_vars

\* a request of the owner was rejected by the throttle 15 seconds after the
\* owner's batch was accepted; the batch, its item and the timestamp are there
C17_Witness ==
  \E r \in Requests :
    /\ R(r).pc = "responded"
    /\ R(r).response.status = 429
    /\ owner_batches = [active |-> 0, terminal |-> 1, items |-> 1]
    /\ Owner \in DOMAIN user_last_batch
    /\ R(r).now - user_last_batch[Owner] = TickSeconds


\* C18: for every key, the calls that is_allowed let through within any
\* window of `period` seconds (a time t and the period before it, t - period
\* excluded) are at most `calls`.
AllowedWithin(key, t) ==
  Cardinality({i \in 1..Len(Passed(key)) :
                 /\ Passed(key)[i] > t - middleware.period
                 /\ Passed(key)[i] <= t})

C18_WindowHoldsLimit ==
  \A key \in DOMAIN middleware.passed :
    \A i \in 1..Len(Passed(key)) :
      AllowedWithin(key, Passed(key)[i]) <= middleware.calls

\* the same for the windows of at most the hour _cleanup_old_requests keeps
WindowHoldsLimitWithinHour ==
  middleware.period <= Hour => C18_WindowHoldsLimit

\* a call over the limit is answered 429 and lets nothing through
OverLimitAnswered429 ==
  [][\A key \in Keys :
       (dispatch(key, TRUE) /\ ~is_allowed(key, middleware.calls, middleware.period).allowed)
         => /\ middleware'.response = 429
            /\ middleware'.passed = middleware.passed]_vars

\* C19: the commit of a cancel request leaves the batch in error with a
\* completion timestamp, every item of the batch that is pending in error with
\* the cancelled reason, and every other item as it was.
C19_CancelFrame ==
  [][\A b \in Batches :
       cancel_commit(b) =>
         /\ batch_requests'[b].status = "error"
         /\ batch_requests'[b].completed_at = TRUE
         /\ \A i \in ItemIdx :
              IF batch_request_items[b][i].status = "pending"
              THEN /\ batch_request_items'[b][i].status = "error"
                   /\ batch_request_items'[b][i].error_message = "cancelled"
              ELSE batch_request_items'[b][i] = batch_request_items[b][i]]_vars

\* C20: the status of a batch that is completed or error does not change.
C20_TerminalStatusKept ==
  [][\A b \in Batches :
       batch_requests[b].status \in Terminal
         => batch_requests'[b].status = batch_requests[b].status]_vars

\* C21: a batch whose pass has ended after an exception reached the except
\* block of _process_batch_async is in error with a completion timestamp.
C21_RaisedPassEndsInError ==
  \A b \in Batches :
    (hist[b].raised /\ T(b).pc \in {"done", "none"})
      => /\ batch_requests[b].status = "error"
         /\ batch_requests[b].completed_at = TRUE

\* C22: no exception leaves _process_item_with_timeout: the pass is never at
\* the except Exception of its loop with an exception of the item's call.
C22_SupervisorNeverRaises ==
  \A b \in Batches : T(b).pc # "item_reraised"

C24_AnsweredBeforeProcessing ==
  [][\A b \in Batches :
       (handler[b] # "responded" /\ handler'[b] = "responded")
         => \A i \in ItemIdx : batch_request_items'[b][i].status \notin Terminal]_vars

C26_CycleHandlesEveryUnit ==
  [][(retry.pc = "process" /\ retry'.pc = "sleep") => Len(retry.pending) = 1]_vars

C28_DeadlineMarksErrorOnce ==
  [][\A b \in Batches :
       (item_fulfil_timeout(b) \/ item_commit_timeout(b))
         => /\ batch_request_items'[b][CurItem(b)].status = "error"
            /\ batch_request_items'[b][CurItem(b)].error_message = "timeout"
            /\ batch_requests'[b].failed_requests = batch_requests[b].failed_requests + 1
            /\ batch_requests'[b].completed_requests = batch_requests[b].completed_requests]_vars

\* C29: an item has an xml_url only when it is completed and an error_message
\* only when it is in error.
C29_ResultOrReason ==
  \A b \in Batches : \A i \in ItemIdx :
    LET item == batch_request_items[b][i] IN
    /\ item.xml_url => item.status = "completed"
    /\ item.error_message # "none" => item.status = "error"

C31_OneAtATimeInOrder ==
  /\ [](\A b \in Batches : Cardinality(ItemsWith(b, {"processing"})) <= 1)
  /\ [][\A b \in Batches : \A i \in ItemIdx :
         (/\ batch_request_items[b][i].status # "processing"
          /\ batch_request_items'[b][i].status = "processing")
           => \A j \in 1..(i - 1) : batch_request_items[b][j].status \in Terminal]_vars

\* the second item of a batch is in processing after the first has failed
C31_Witness ==
  \E b \in Batches :
    /\ batch_request_items[b][1].status = "error"
    /\ batch_request_items[b][2].status = "processing"

\* C32: a step of the aggregation changes the batch row only in a state where
\* every item of the batch is in completed or error, and the count that finds
\* an item in pending or processing ends the aggregation with the row as it
\* was.
C32_AggregationBarrier ==
  [][\A b \in Batches :
       LET all_terminal == \A i \in 1..batch_requests[b].total_requests :
                             batch_request_items[b][i].status \in Terminal
       IN (T(b).pc \in {"agg_count", "agg_commit"} /\ task'[b] # task[b])
            => /\ batch_requests'[b] # batch_requests[b] => all_terminal
               /\ (T(b).pc = "agg_count" /\ ~all_terminal)
                    => /\ task'[b].pc = "done"
                       /\ batch_requests'[b] = batch_requests[b]]_vars

\* the aggregation has given a batch of two items, one completed and one in
\* error, its final status
C32_Witness ==
  \E b \in Batches :
    /\ hist[b].aggregated = "completed"
    /\ batch_requests[b].total_requests = 2
    /\ batch_requests[b].completed_at
    /\ batch_request_items[b][1].status = "completed"
    /\ batch_request_items[b][2].status = "error"

\* C33: a step of the retry loop leaves every batch row and every item row
\* as it was; a step of a pass leaves the retry loop and every existing unit
\* as they were, and a unit it creates is not in sem_conexao and has no
\* attempt counted.
C33_SeparateOwnership ==
  [][/\ retry' # retry
          => /\ batch_requests' = batch_requests
             /\ batch_request_items' = batch_request_items
     /\ task' # task
          => /\ retry' = retry
             /\ \A u \in 1..Len(solicitacoes) : solicitacoes'[u] = solicitacoes[u]
             /\ \A u \in 1..Len(solicitacoes') :
                  u > Len(solicitacoes)
                    => /\ solicitacoes'[u].status # "sem_conexao"
                       /\ solicitacoes'[u].failed_attempts = 0]_vars

\* a retry cycle has counted an attempt for the unit of an item that the pass
\* completed, in a batch the pass has aggregated
C33_Witness ==
  \E b \in Batches : \E u \in 1..Len(solicitacoes) :
    /\ solicitacoes[u].item = <<b, 1>>
    /\ solicitacoes[u].failed_attempts >= 1
    /\ batch_request_items[b][1].status = "completed"
    /\ hist[b].aggregated = "completed"

\* C34: the step that ends a sweep has deleted nothing, or has deleted every
\* row of xmls that was stored when the sweep began and expired before the
\* sweep time together with the row of solicitacoes each deleted row
\* references; a row of xmls that is not expired at the sweep time is not
\* deleted.
C34_SweepAtomic ==
  [][(limpeza.pc # "idle" /\ limpeza'.pc = "idle")
       => LET gone == {x \in 1..MaxXmls :
                         limpeza.xmls[x].stored /\ ~limpeza'.xmls[x].stored}
          IN /\ \A x \in gone : limpeza.xmls[x].expiracao < limpeza.agora
             /\ \/ /\ gone = {}
                   /\ limpeza'.solicitacoes = limpeza.solicitacoes
                \/ /\ \A x \in limpeza.at_start :
                        Expired(limpeza.xmls[x], limpeza.agora) => x \in gone
                   /\ \A x \in gone :
                        limpeza.xmls[x].id_solicitacao \notin limpeza'.solicitacoes]_vars

\* C35: in every state a batch row that is stored has as many item rows as
\* its total_requests (so all of them exist before one is moved to processing).
C35_BatchWithItems ==
  \A b \in Batches :
    batch_requests[b].status # NoRow
      => Cardinality(ItemsWith(b, ItemStatuses)) = batch_requests[b].total_requests

\* C36: a request with a valid target list and two well-formed dates passes
\* the check of its period exactly when start <= end, end - start <= 365,
\* start >= today - 730 and end <= today; otherwise it is answered with the
\* message of the first of these four that fails, in that order.
C36_DatesAcceptedIff ==
  [][\A r \in Requests :
       LET body == req'[r]
           inicio == body.data_inicio.day
           fim == body.data_fim.day
           reason == IF inicio > fim
                     THEN "Data de inicio deve ser menor ou igual a data de fim"
                     ELSE IF fim - inicio > 365
                     THEN "Periodo maximo permitido e de 12 meses"
                     ELSE IF inicio < Today - 730 THEN "Data de inicio muito antiga"
                     ELSE IF fim > Today THEN "Data de fim nao pode ser futura"
                     ELSE "ok"
       IN (/\ req[r].pc = "idle" /\ body.pc # "idle"
           /\ validate_client_ids(body.client_ids) = "ok"
           /\ body.data_inicio.ok /\ body.data_fim.ok)
            => /\ body.response = NoResponse
                   <=> (inicio <= fim /\ fim - inicio <= 365
                        /\ inicio >= Today - 730 /\ fim <= Today)
               /\ body.response # NoResponse => body.response.detail = {reason}]_vars

\* a period that starts 731 days ago and ends today is answered with the
\* message of the span, not with the message of the age of its start
C36_Witness ==
  /\ req["r1"].pc = "responded"
  /\ req["r1"].data_inicio = isoformat(Today - 731)
  /\ req["r1"].data_fim = isoformat(Today)
  /\ req["r1"].response.detail = {"Periodo maximo permitido e de 12 meses"}

\* C37: the owner never has more than MaxActiveBatches rows of batch_requests
\* in pending or processing, however the creation requests interleave.
C37_ActiveCapHolds == owner_batches.active <= MaxActiveBatches

\* C38: a batch id is in processing_tasks exactly while a process_batch call
\* that registered it is between the registration and its finally; the step
\* in which that call returns (the task ended normally, after an exception,
\* by cancellation, without a row, or on a row already taken up) leaves the
\* id out of the registry, and the registry is then no larger than the
\* number of calls in progress.
C38_RegistryTracksLiveCalls ==
  /\ [](\A b \in Batches : b \in processing_tasks <=> T(b).pc # "none")
  /\ [][\A b \in Batches :
          (T(b).pc # "none" /\ task'[b].pc = "none")
            => /\ b \notin processing_tasks'
               /\ Cardinality(processing_tasks')
                    = Cardinality({c \in Batches : task'[c].pc # "none"})]_vars

\* stop() cancelled the pass of a batch: the row is left in processing, no
\* exception was handled, the caller has its answer and the id is gone
C38_Witness ==
  \E b \in Batches :
    /\ ~sweeper.running
    /\ batch_requests[b].status = "processing"
    /\ ~hist[b].raised
    /\ handler[b] = "responded"
    /\ T(b).pc = "none"
    /\ b \notin processing_tasks

\* C39: every call of is_allowed gets the answer of a limiter that never runs
\* _cleanup_old_requests and only drops, per key, the times that have left the
\* window: up to the first answer that differs, the times that limiter holds
\* for a key are the times at which is_allowed returned True for it.
ReferenceAllowed(key, limit, window) ==
  Len(After(Passed(key), now - window)) < limit

C39_CleanupChangesNoAnswer ==
  [][\A key \in Keys :
       dispatch(key, TRUE)
         => (is_allowed(key, middleware.calls, middleware.period).allowed
               <=> ReferenceAllowed(key, middleware.calls, middleware.period))]_vars

\* the same for the windows of at most the hour _cleanup_old_requests keeps
CleanupChangesNoAnswerWithinHour ==
  [][\A key \in Keys :
       (dispatch(key, TRUE) /\ middleware.period <= Hour)
         => (is_allowed(key, middleware.calls, middleware.period).allowed
               <=> ReferenceAllowed(key, middleware.calls, middleware.period))]_vars

====
